---- MODULE Spec2Model ----
(***************************************************************************)
(* Model of the G13 device session manager (g13gui/g13/manager.py).        *)
(*                                                                         *)
(* Threads:                                                                *)
(*   - the session thread, Manager.run, one step per statement that reads  *)
(*     or writes state shared with other threads (pc is its position);     *)
(*   - caller threads, which invoke setLedsMode / setBacklightColor /      *)
(*     setLCDBuffer: the guard (_ensureState) and the queue put are two    *)
(*     separate steps, as they are two statements with no lock around;     *)
(*   - any thread calling shutdown();                                      *)
(*   - the profile collaborator switching the selected profile;            *)
(*   - the display thread encoding an image (displaydevice.py,             *)
(*     ImageToLPBM), a pure function applied by the Update action.         *)
(* Every USB call is a nondeterministic choice among its outcomes.         *)
(***************************************************************************)
EXTENDS Integers, Sequences, FiniteSets, TLC

\* ------------------------------------------------------------------ bounds
\* Total number of calls to the three mutating operations (all callers).
MaxCalls == 2

\* Images passed to ImageToLPBM differ from a plain one in at most one pixel,
\* taken from the columns 0..MaxProbeCol and the last column.
MaxProbeCol == 1

\* ------------------------------------------------------- program constants
REPORT_SIZE == 8
LCD_BUFFER_SIZE == 960

\* DisplayMetrics
WIDTH_PIXELS == 160
HEIGHT_PIXELS == 48

DISCOVERING == "DISCOVERING"
FOUND == "FOUND"
SHUTDOWN == "SHUTDOWN"
State == {DISCOVERING, FOUND, SHUTDOWN}

\* self._device: None, or a handle returned by usb.core.find
None == "None"
Dev == "Dev"

\* The threads that call the mutating operations: the GUI thread (LEDs and
\* backlight) and the display thread (G13DisplayDevice._pushFrame).
Callers == {"gui", "display"}

\* ---------------------------------------------------------------- commands
\* A queue entry is [fn, args]: the bound method and its argument tuple.
\* An argument value is [kind, v]: an int v, or a list / bytes object of
\* length v.
IntArg(n) == [kind |-> "int", v |-> n]
LedsArgs == {<<IntArg(1)>>}
BacklightArgs == {<<IntArg(255), IntArg(0), IntArg(0)>>}
\* setLCDBuffer's argument: a list of ints, or the bytes object that
\* ImageToLPBM returns (bio.getvalue()).
LcdArgs == {<<[kind |-> "list", v |-> LCD_BUFFER_SIZE]>>,
            <<[kind |-> "bytes", v |-> LCD_BUFFER_SIZE]>>}

setLedsMode == "setLedsMode"
setBacklightColor == "setBacklightColor"
setLCDBuffer == "setLCDBuffer"
Operations == {setLedsMode, setBacklightColor, setLCDBuffer}

\* The operations each caller thread invokes.
OpsOf(c) ==
    IF c = "display" THEN {setLCDBuffer}
    ELSE {setLedsMode, setBacklightColor}

ArgsOf(op) ==
    CASE op = setLedsMode -> LedsArgs
      [] op = setBacklightColor -> BacklightArgs
      [] op = setLCDBuffer -> LcdArgs

\* The closure each public operation queues: [self._setX, (args)].
FnOf(op) ==
    CASE op = setLedsMode -> "_setLedsMode"
      [] op = setBacklightColor -> "_setBacklightColor"
      [] op = setLCDBuffer -> "_setLCDBuffer"

CommandOf(op, args) == [fn |-> FnOf(op), args |-> args]

NoCommand == [fn |-> "none", args |-> <<>>]

\* ----------------------------------------------------------------- reports
\* A full 8-byte report, reduced to what the code decodes: the key bitfield
\* and the two joystick bytes (report[1:3]).
G13NormalKeys == <<"G1", "G2">>

AllReports == [keys : 0..3, joy_x : {0, 128}, joy_y : {128}]
QuietReports == {[keys |-> 0, joy_x |-> 128, joy_y |-> 128]}

\* Reports with no key held and the stick on and around the edges 0.2 and
\* 0.8: 51 / 255 = 0.2 and 204 / 255 = 0.8.
StickReports == [keys : {0}, joy_x : {50, 51, 204, 207},
                 joy_y : {128, 204, 205}]

RECURSIVE IndexOf(_, _, _)
IndexOf(seq, x, i) ==
    IF i > Len(seq) THEN 0
    ELSE IF seq[i] = x THEN i ELSE IndexOf(seq, x, i + 1)

\* key.testReport(report): the key's bit in the report's key bytes.
testReport(key, report) ==
    ((report.keys \div (2 ^ (IndexOf(G13NormalKeys, key, 1) - 1))) % 2) = 1

\* ---------------------------------------------------------------- profiles
\* prefs.selectedProfile(): keyBinding(name) -> sequence of key codes,
\* stickMode, stickRegions() -> name -> (x0, y0, x1, y1), in hundredths.
KEYS == "KEYS"
RELATIVE == "RELATIVE"
ABSOLUTE == "ABSOLUTE"

StickRegionNames == <<"LEFT", "CENTER">>

BoundNames == {"G1", "G2", "LEFT", "CENTER"}

Regions ==
    [n \in {"LEFT", "CENTER"} |->
       IF n = "LEFT" THEN <<0, 0, 20, 100>> ELSE <<20, 20, 80, 80>>]

Profiles ==
    << [keyBinding |-> [k \in BoundNames |->
                          CASE k = "G1" -> <<"KEY_A">>
                            [] k = "G2" -> <<"KEY_B", "KEY_C">>
                            [] k = "LEFT" -> <<"KEY_LEFT">>
                            [] k = "CENTER" -> <<"KEY_ENTER">>],
        stickMode |-> KEYS,
        stickRegions |-> Regions],
       [keyBinding |-> [k \in BoundNames |->
                          CASE k = "G1" -> <<>>
                            [] k = "G2" -> <<"KEY_A">>
                            [] k = "LEFT" -> <<>>
                            [] k = "CENTER" -> <<>>],
        stickMode |-> ABSOLUTE,
        stickRegions |-> Regions],
       [keyBinding |-> [k \in BoundNames |->
                          CASE k = "G1" -> <<"KEY_A">>
                            [] k = "G2" -> <<"KEY_B", "KEY_C">>
                            [] k = "LEFT" -> <<"KEY_LEFT">>
                            [] k = "CENTER" -> <<"KEY_ENTER">>],
        stickMode |-> RELATIVE,
        stickRegions |-> Regions] >>

\* ------------------------------------------------------------ helpers
\* dict.get(k, dflt) and dict[k] = v on a dict held as a set of pairs.
Get(d, k, dflt) ==
    IF \E p \in d : p[1] = k THEN (CHOOSE p \in d : p[1] = k)[2] ELSE dflt

Set(d, k, v) == {p \in d : p[1] # k} \cup {<<k, v>>}

\* for code in binding: self._uinput.write(e.EV_KEY, code, value)
KeyWrites(binding, value) ==
    [i \in 1..Len(binding) |-> <<"EV_KEY", binding[i], value>>]

\* A loop body that never stores nowPressed (line 267 dropped).
SynthesizeKey_NoStore(key, report, profile, acc) ==
    LET binding == profile.keyBinding[key]
        wasPressed == Get(acc[1], key, FALSE)
        nowPressed == testReport(key, report)
        writes == IF ~wasPressed /\ nowPressed THEN KeyWrites(binding, 1)
                  ELSE IF wasPressed /\ ~nowPressed THEN KeyWrites(binding, 0)
                  ELSE <<>>
    IN  <<acc[1], acc[2] \o writes>>

\* One pass of the loop body of _synthesizeKeys for `key`, on the pair
\* <<lastKeyState, writes so far>>.
SynthesizeKey(key, report, profile, acc) ==
    LET binding == profile.keyBinding[key]
        wasPressed == Get(acc[1], key, FALSE)
        nowPressed == testReport(key, report)
        writes == IF ~wasPressed /\ nowPressed THEN KeyWrites(binding, 1)
                  ELSE IF wasPressed /\ ~nowPressed THEN KeyWrites(binding, 0)
                  ELSE <<>>
    IN  <<Set(acc[1], key, nowPressed), acc[2] \o writes>>

\* _synthesizeKeys: for key in G13NormalKeys, in order.
RECURSIVE SynthesizeKeys(_, _, _, _)
SynthesizeKeys(i, report, profile, acc) ==
    IF i > Len(G13NormalKeys) THEN acc
    ELSE SynthesizeKeys(i + 1, report, profile,
                        SynthesizeKey(G13NormalKeys[i], report, profile, acc))

\* A containment test that leaves the far edges out.
InRegion_Exclusive(region, joy_x, joy_y) ==
    LET inX == /\ joy_x * 100 >= region[1] * 255
               /\ joy_x * 100 < region[3] * 255
        inY == /\ joy_y * 100 >= region[2] * 255
               /\ joy_y * 100 < region[4] * 255
    IN  inX /\ inY

\* Line 228-229 and 234-236: joy_x / 255 and joy_y / 255 tested against the
\* region (x0, y0, x1, y1). The bounds are in hundredths and the comparison
\* is made exactly: for every byte and every bound in hundredths the float
\* comparison of the code gives the same answer.
InRegion(region, joy_x, joy_y) ==
    LET inX == /\ joy_x * 100 >= region[1] * 255
               /\ joy_x * 100 <= region[3] * 255
        inY == /\ joy_y * 100 >= region[2] * 255
               /\ joy_y * 100 <= region[4] * 255
    IN  inX /\ inY

\* One pass of the Keys-mode loop of _synthesizeStick for region `name`.
SynthesizeRegion(name, report, profile, acc) ==
    LET region == profile.stickRegions[name]
        binding == profile.keyBinding[name]
        wasPressed == Get(acc[1], name, FALSE)
        nowPressed == InRegion(region, report.joy_x, report.joy_y)
        writes == IF ~wasPressed /\ nowPressed THEN KeyWrites(binding, 1)
                  ELSE IF wasPressed /\ ~nowPressed THEN KeyWrites(binding, 0)
                  ELSE <<>>
    IN  <<Set(acc[1], name, nowPressed), acc[2] \o writes>>

RECURSIVE SynthesizeRegions(_, _, _, _)
SynthesizeRegions(i, report, profile, acc) ==
    IF i > Len(StickRegionNames) THEN acc
    ELSE SynthesizeRegions(i + 1, report, profile,
                           SynthesizeRegion(StickRegionNames[i], report,
                                            profile, acc))

\* A _synthesizeStick that tests only for ABSOLUTE and treats every other
\* mode as KEYS.
SynthesizeStick_RelativeAsKeys(report, profile, acc) ==
    IF profile.stickMode = ABSOLUTE
    THEN <<acc[1], acc[2] \o << <<"EV_ABS", "ABS_X", report.joy_x>>,
                                <<"EV_ABS", "ABS_Y", report.joy_y>> >> >>
    ELSE SynthesizeRegions(1, report, profile, acc)

\* _synthesizeStick on the pair <<lastKeyState, writes so far>>.
SynthesizeStick(report, profile, acc) ==
    CASE profile.stickMode = KEYS ->
           SynthesizeRegions(1, report, profile, acc)
      [] profile.stickMode = RELATIVE -> acc
      [] profile.stickMode = ABSOLUTE ->
           <<acc[1], acc[2] \o << <<"EV_ABS", "ABS_X", report.joy_x>>,
                                  <<"EV_ABS", "ABS_Y", report.joy_y>> >> >>
      [] OTHER -> acc

\* A guard that never raises.
EnsureStateRaises_Never(current, wanted) == FALSE

\* _ensureState(state): TRUE iff it raises StateError.
EnsureStateRaises(current, wanted) == current # wanted

\* A get that takes the newest entry instead of the oldest.
QueueFront_Newest(q) == q[Len(q)]

\* queue.Queue.put / get_nowait
QueuePut(q, item) == Append(q, item)
QueueFront(q) == Head(q)
QueueRest(q) == Tail(q)

\* What fn(*args) does up to its device call: "AttributeError" when
\* self._device is None (the method lookup on it), "TypeError" when
\* _setLCDBuffer evaluates header + buffer with a bytes buffer (list + bytes),
\* else the USB transfer is attempted.
Prepare(cmd, dev) ==
    IF dev = None THEN "AttributeError"
    ELSE IF cmd.fn = "_setLCDBuffer" /\ cmd.args[1].kind # "list"
         THEN "TypeError"
    ELSE "transfer"

\* ----------------------------------------------------------- ImageToLPBM
\* An image in mode '1' (what image.convert('1') returns): its size and its
\* pixels, 0 (black) or 255 (white), given as a plain colour bg and the set
\* of pixels <<x, y>> of the other colour.
NoImage == [width |-> 0, height |-> 0, bg |-> 255, flipped |-> {}]

PixelAt(img, x, y) == IF <<x, y>> \in img.flipped THEN 255 - img.bg ELSE img.bg

\* pixels[x, y] raises IndexError outside the image.
InImage(img, x, y) == x < img.width /\ y < img.height

ProbeCols == (0..MaxProbeCol) \cup {WIDTH_PIXELS - 1}
ProbePixels == ProbeCols \X (0..(HEIGHT_PIXELS - 1))

\* Images of the device's dimensions.
DeviceImages ==
    [width : {WIDTH_PIXELS}, height : {HEIGHT_PIXELS}, bg : {0, 255},
     flipped : {{}} \cup {{p} : p \in ProbePixels}]

\* Plain images of other dimensions, smaller and larger.
OtherSizes ==
    {<<WIDTH_PIXELS - 1, HEIGHT_PIXELS>>, <<WIDTH_PIXELS, HEIGHT_PIXELS - 6>>,
     <<WIDTH_PIXELS, HEIGHT_PIXELS - 5>>, <<WIDTH_PIXELS, HEIGHT_PIXELS - 1>>,
     <<WIDTH_PIXELS + 1, HEIGHT_PIXELS>>, <<WIDTH_PIXELS, HEIGHT_PIXELS + 1>>,
     <<WIDTH_PIXELS \div 2, HEIGHT_PIXELS \div 2>>,
     <<2 * WIDTH_PIXELS, 2 * HEIGHT_PIXELS>>}

OtherImages ==
    {[width |-> d[1], height |-> d[2], bg |-> b, flipped |-> {}] :
       d \in OtherSizes, b \in {0, 255}}

Images == DeviceImages \cup OtherImages

\* What a call of ImageToLPBM did: raised is "none" when it returned value,
\* else the exception; written is the number of bytes written to bio.
NotRun == [raised |-> "notrun", value |-> <<>>, written |-> 0]

\* A band test that never shortens the band.
MaxSubrow_Always8(row) == 8

\* Line 31: maxSubrow = 3 if row == 40 else 8
MaxSubrow(row) == IF row = 40 THEN 3 ELSE 8

\* A bit that is set for white pixels instead of black ones.
BlackBit_Inverted(pixel_value) == IF pixel_value = 0 THEN 0 ELSE 1

\* Line 36: (1 if pixel_value == 0 else 0)
BlackBit(pixel_value) == IF pixel_value = 0 THEN 1 ELSE 0

\* Line 28 and 33-36: the inner loop from `subrow` on, b being the byte so
\* far; -1 when pixels[col, row + subrow] raises IndexError. Bit `subrow` of
\* b is still clear when it is or-ed in, so the or is an addition.
RECURSIVE PackByte(_, _, _, _, _)
PackByte(img, col, row, subrow, b) ==
    IF subrow >= MaxSubrow(row) THEN b
    ELSE IF ~InImage(img, col, row + subrow) THEN -1
    ELSE PackByte(img, col, row, subrow + 1,
                  b + BlackBit(PixelAt(img, col, row + subrow))
                      * (2 ^ subrow))

\* Line 22: maxBytes
MaxBytes == (WIDTH_PIXELS * HEIGHT_PIXELS) \div 8

\* Line 24-25 and 19: the loop's variables before its first pass.
EncodeStart ==
    [byteNum |-> 0, row |-> 0, col |-> 0, bio |-> <<>>, raised |-> "none"]

\* Line 27: for byteNum in range(0, maxBytes) has no pass left, or the
\* function was left by an exception.
EncodeDone(st) == st.byteNum >= MaxBytes \/ st.raised # "none"

\* Line 28-45: one pass of the loop over byteNum.
EncodeStep(img, st) ==
    LET b == PackByte(img, st.col, st.row, 0, 0)
        wrap == (st.col + 1) % WIDTH_PIXELS = 0
    IN  IF b < 0
        THEN [st EXCEPT !.raised = "IndexError"]
        ELSE [byteNum |-> st.byteNum + 1,
              row |-> IF wrap THEN st.row + 8 ELSE st.row,
              col |-> IF wrap THEN 0 ELSE st.col + 1,
              bio |-> Append(st.bio, b),
              raised |-> "none"]

\* At most n passes of the loop.
RECURSIVE EncodeSteps(_, _, _)
EncodeSteps(img, st, n) ==
    IF n = 0 \/ EncodeDone(st) THEN st
    ELSE EncodeSteps(img, EncodeStep(img, st), n - 1)

\* Line 27-45: all passes of the loop, evaluated a quarter of a band at a
\* time.
RECURSIVE EncodeFrom(_, _)
EncodeFrom(img, st) ==
    IF EncodeDone(st) THEN st
    ELSE EncodeFrom(img, EncodeSteps(img, st, WIDTH_PIXELS \div 4))

\* Line 13-47: return bio.getvalue(), or the exception.
ImageToLPBM(img) ==
    LET st == EncodeFrom(img, EncodeStart)
    IN  [raised |-> st.raised,
         value |-> IF st.raised = "none" THEN st.bio ELSE <<>>,
         written |-> Len(st.bio)]

VARIABLES
    state,          \* self._state
    device,         \* self._device
    commandQueue,   \* self._commandQueue (queue.Queue): sequence of commands
    lastKeyState,   \* self._lastKeyState: dict, as a set of <<name, bool>>
    pc,             \* position of the session thread in run()
    retpc,          \* where the running _reset() returns to
    reportBuffer,   \* run's reportBuffer: the last full report read
    uinput,         \* events written to self._uinput since the last syn()
    selected,       \* index of prefs.selectedProfile() in Profiles
    cpc,            \* per caller: "idle", or "put" (guard passed, put pending)
    pending,        \* per caller: the command it is about to put
    calls,          \* number of calls made to the mutating operations
    raised,         \* TRUE iff the latest call raised StateError
    \* history (ghost) variables
    enqueued,       \* every command ever put, in put order
    invoked,        \* every command fn(*args) was called for, in call order
    shutdownFrom,   \* state at the shutdown() call, "none" before it
    resetsAfter,    \* device.reset() calls in _reset since shutdown(), capped
    recovering,     \* a USB error ended the steady-state loop and state has
                    \* not been reassigned since
    failAt,         \* Len(invoked) when a command last failed, 0 if never
    failQueued,     \* Len(enqueued) at that time
    devReset,       \* the held handle was reset in _discover (line 102)
    devConfigured,  \* the held handle was configured (line 106)
    prevBits,       \* decoded key bits of the previous full report
    lastRead,       \* outcome of the self._device.read just made; "none" once
                    \* the session thread has taken its next step
    pollsWaited,    \* polling reads made since the command at the head of
                    \* the queue was put; -1 once an I/O error followed its
                    \* put, or when it was put while state was not FOUND
    downCodes,      \* per key / region name: the codes key-down was last
                    \* written for, <<>> once key-up was handled
    netDown,        \* per key / region name: times the key-down branch was
                    \* taken minus times the key-up branch was taken
    \* the display thread (G13DisplayDevice.update)
    image,          \* the image passed to ImageToLPBM
    lpbm            \* what ImageToLPBM did with it

vars == <<state, device, commandQueue, lastKeyState, pc, retpc, reportBuffer,
          uinput, selected, cpc, pending, calls, raised, enqueued,
          invoked, shutdownFrom, resetsAfter, recovering, failAt, failQueued,
          devReset, devConfigured, prevBits, lastRead, pollsWaited,
          downCodes, netDown, image, lpbm>>

sessionVars == <<state, device, commandQueue, lastKeyState, pc, retpc,
                 reportBuffer, uinput>>
callerVars == <<cpc, pending, calls, raised, enqueued>>
ghostVars == <<invoked, shutdownFrom, resetsAfter, recovering, failAt,
               failQueued, devReset, devConfigured, prevBits, lastRead,
               pollsWaited, downCodes, netDown>>
ghostButPolls == <<invoked, shutdownFrom, resetsAfter, recovering, failAt,
                   failQueued, devReset, devConfigured, prevBits, lastRead,
                   downCodes, netDown>>
encoderVars == <<image, lpbm>>

\* pollsWaited after an I/O error: void while a command is waiting.
AfterIOError(q, w) == IF q = <<>> THEN w ELSE -1

\* pollsWaited after a polling read that did not raise (counted up to 2).
AfterPoll(q, w) == IF q # <<>> /\ w >= 0 /\ w < 2 THEN w + 1 ELSE w

\* The names _lastKeyState is keyed by: the keys and the stick regions.
Range(seq) == {seq[i] : i \in 1..Len(seq)}
KeyNames == Range(G13NormalKeys) \cup Range(StickRegionNames)

\* downCodes / netDown after the loop body for `name` saw the edge
\* wasPressed -> nowPressed with `binding`.
DownCodesAfter(old, was, now, binding) ==
    IF ~was /\ now THEN binding ELSE IF was /\ ~now THEN <<>> ELSE old

NetDownAfter(old, was, now) ==
    IF ~was /\ now THEN old + 1 ELSE IF was /\ ~now THEN old - 1 ELSE old

\* Manager.__init__
Init ==
    /\ state = DISCOVERING
    /\ device = None
    /\ commandQueue = <<>>
    /\ lastKeyState = {}
    /\ pc = "run_top"
    /\ retpc = "none"
    /\ reportBuffer = [keys |-> 0, joy_x |-> 0, joy_y |-> 0]
    /\ uinput = <<>>
    /\ selected = 1
    /\ cpc = [c \in Callers |-> "idle"]
    /\ pending = [c \in Callers |-> NoCommand]
    /\ calls = 0
    /\ raised = FALSE
    /\ enqueued = <<>>
    /\ invoked = <<>>
    /\ shutdownFrom = "none"
    /\ resetsAfter = 0
    /\ recovering = FALSE
    /\ failAt = 0
    /\ failQueued = 0
    /\ devReset = FALSE
    /\ devConfigured = FALSE
    /\ prevBits = [i \in 1..Len(G13NormalKeys) |-> FALSE]
    /\ lastRead = "none"
    /\ pollsWaited = 0
    /\ downCodes = [n \in KeyNames |-> <<>>]
    /\ netDown = [n \in KeyNames |-> 0]
    /\ image = NoImage
    /\ lpbm = NotRun

\* ------------------------------------------------------------ _reset
\* Call _reset(): the session thread continues at its first statement and
\* returns to `ret`.
CallReset(ret) ==
    /\ pc' = "reset_devreset"
    /\ retpc' = ret

\* Line 79-81: self._device.reset(); a USBError is caught and printed.
\* With self._device None the attribute lookup raises AttributeError, which
\* nothing catches: the thread dies.
ResetDevReset ==
    /\ pc = "reset_devreset"
    /\ IF device = None
       THEN /\ pc' = "crashed"
            /\ UNCHANGED resetsAfter
       ELSE /\ \E ok \in BOOLEAN : pc' = "reset_dispose"
            /\ resetsAfter' = IF shutdownFrom # "none" /\ resetsAfter < 2
                              THEN resetsAfter + 1 ELSE resetsAfter
    /\ UNCHANGED <<state, device, commandQueue, lastKeyState, retpc,
                   reportBuffer, uinput, selected, callerVars,
                   invoked, shutdownFrom, recovering, failAt, failQueued,
                   devReset, devConfigured, prevBits, lastRead,
                   pollsWaited, downCodes, netDown, encoderVars>>

\* Line 83-85: dispose_resources, del self._device, self._device = None.
ResetDispose ==
    /\ pc = "reset_dispose"
    /\ device' = None
    /\ devReset' = FALSE
    /\ devConfigured' = FALSE
    /\ pc' = "reset_sleep"
    /\ UNCHANGED <<state, commandQueue, lastKeyState, retpc, reportBuffer,
                   uinput, selected, callerVars, invoked, shutdownFrom,
                   resetsAfter, recovering, failAt, failQueued, prevBits,
                   lastRead,
                   pollsWaited, downCodes, netDown, encoderVars>>

\* Line 86: time.sleep(1), then return to the caller.
ResetSleep ==
    /\ pc = "reset_sleep"
    /\ pc' = retpc
    /\ retpc' = "none"
    /\ UNCHANGED <<state, device, commandQueue, lastKeyState, reportBuffer,
                   uinput, selected, callerVars, ghostVars, encoderVars>>

\* --------------------------------------------------------- _discover
\* Line 89-90: if self._device: self._reset()
DiscEntry ==
    /\ pc = "disc_entry"
    /\ IF device # None
       THEN CallReset("disc_setstate")
       ELSE /\ pc' = "disc_setstate"
            /\ UNCHANGED retpc
    /\ UNCHANGED <<state, device, commandQueue, lastKeyState, reportBuffer,
                   uinput, selected, callerVars, ghostVars, encoderVars>>

\* A _discover that also forgets the previous key states.
DiscSetState_ClearKeys ==
    /\ pc = "disc_setstate"
    /\ state' = DISCOVERING
    /\ lastKeyState' = {}
    /\ recovering' = FALSE
    /\ pc' = "disc_loop"
    /\ UNCHANGED <<device, commandQueue, retpc, reportBuffer, uinput,
                   selected, callerVars, invoked, shutdownFrom, resetsAfter,
                   failAt, failQueued, devReset, devConfigured, prevBits,
                   lastRead, pollsWaited, downCodes, netDown, encoderVars>>

\* Line 92: self._state = Manager.State.DISCOVERING
DiscSetState ==
    /\ pc = "disc_setstate"
    /\ state' = DISCOVERING
    /\ recovering' = FALSE
    /\ pc' = "disc_loop"
    /\ UNCHANGED <<device, commandQueue, lastKeyState, retpc, reportBuffer,
                   uinput, selected, callerVars, invoked, shutdownFrom,
                   resetsAfter, failAt, failQueued, devReset, devConfigured,
                   prevBits, lastRead,
                   pollsWaited, downCodes, netDown, encoderVars>>

\* Line 94 and 96: while self._state == DISCOVERING: try: while not
\* self._device. When the outer test fails _discover returns to run, line 203.
DiscLoop ==
    /\ pc = "disc_loop"
    /\ pc' = IF state = DISCOVERING
             THEN (IF device = None THEN "disc_find" ELSE "disc_devreset")
             ELSE "found_loop"
    /\ UNCHANGED <<state, device, commandQueue, lastKeyState, retpc,
                   reportBuffer, uinput, selected, callerVars,
                   ghostVars, encoderVars>>

\* Line 97-99: self._device = usb.core.find(...): a device, None, or a
\* USBError from the backend's enumeration (caught at line 107).
FindOutcomes == {"device", "none", "USBError"}

DiscFind ==
    /\ pc = "disc_find"
    /\ \E out \in FindOutcomes :
         /\ device' = IF out = "device" THEN Dev ELSE None
         /\ pc' = CASE out = "device" -> "disc_devreset"
                    [] out = "none" -> "disc_sleep"
                    [] out = "USBError" -> "disc_except"
         /\ pollsWaited' = IF out = "USBError"
                            THEN AfterIOError(commandQueue, pollsWaited)
                            ELSE pollsWaited
    /\ UNCHANGED <<state, commandQueue, lastKeyState, retpc, reportBuffer,
                   uinput, selected, callerVars, ghostButPolls, encoderVars>>

\* Line 100: time.sleep(1), then the inner while tests self._device again.
DiscSleep ==
    /\ pc = "disc_sleep"
    /\ pc' = "disc_find"
    /\ UNCHANGED <<state, device, commandQueue, lastKeyState, retpc,
                   reportBuffer, uinput, selected, callerVars,
                   ghostVars, encoderVars>>

\* Line 102: self._device.reset()
DiscDevReset ==
    /\ pc = "disc_devreset"
    /\ \E ok \in BOOLEAN :
         /\ pc' = IF ok THEN "disc_claim" ELSE "disc_except"
         /\ devReset' = ok
         /\ pollsWaited' = IF ok THEN pollsWaited
                            ELSE AfterIOError(commandQueue, pollsWaited)
    /\ UNCHANGED <<state, device, commandQueue, lastKeyState, retpc,
                   reportBuffer, uinput, selected, callerVars, invoked,
                   shutdownFrom, resetsAfter, recovering, failAt, failQueued,
                   devConfigured, prevBits, lastRead, downCodes, netDown,
                   encoderVars>>

\* Line 103-104: is_kernel_driver_active(0) / detach_kernel_driver(0)
DiscClaim ==
    /\ pc = "disc_claim"
    /\ \E ok \in BOOLEAN :
         /\ pc' = IF ok THEN "disc_config" ELSE "disc_except"
         /\ pollsWaited' = IF ok THEN pollsWaited
                            ELSE AfterIOError(commandQueue, pollsWaited)
    /\ UNCHANGED <<state, device, commandQueue, lastKeyState, retpc,
                   reportBuffer, uinput, selected, callerVars,
                   ghostButPolls, encoderVars>>

\* Line 105-106: find_descriptor, set_configuration(cfg)
DiscConfig ==
    /\ pc = "disc_config"
    /\ \E ok \in BOOLEAN :
         /\ pc' = IF ok THEN "disc_else" ELSE "disc_except"
         /\ devConfigured' = ok
         /\ pollsWaited' = IF ok THEN pollsWaited
                            ELSE AfterIOError(commandQueue, pollsWaited)
    /\ UNCHANGED <<state, device, commandQueue, lastKeyState, retpc,
                   reportBuffer, uinput, selected, callerVars, invoked,
                   shutdownFrom, resetsAfter, recovering, failAt, failQueued,
                   devReset, prevBits, lastRead, downCodes, netDown,
                   encoderVars>>

\* A handler that gives up: the error leaves _discover and ends the thread.
DiscExcept_GiveUp ==
    /\ pc = "disc_except"
    /\ pc' = "crashed"
    /\ UNCHANGED <<state, device, commandQueue, lastKeyState, retpc,
                   reportBuffer, uinput, selected, callerVars, ghostVars,
                   encoderVars>>

\* Line 107-110: except usb.core.USBError: print, self._reset(); the outer
\* while then tests self._state again.
DiscExcept ==
    /\ pc = "disc_except"
    /\ CallReset("disc_loop")
    /\ UNCHANGED <<state, device, commandQueue, lastKeyState, reportBuffer,
                   uinput, selected, callerVars, ghostVars, encoderVars>>

\* Line 111-112: else: self._state = Manager.State.FOUND
DiscElse ==
    /\ pc = "disc_else"
    /\ state' = FOUND
    /\ pc' = "disc_loop"
    /\ UNCHANGED <<device, commandQueue, lastKeyState, retpc, reportBuffer,
                   uinput, selected, callerVars, ghostVars, encoderVars>>

\* --------------------------------------------------------------- run
\* Line 198: while self._state != Manager.State.SHUTDOWN
RunTop ==
    /\ pc = "run_top"
    /\ pc' = IF state # SHUTDOWN THEN "disc_entry" ELSE "exit"
    /\ lastRead' = "none"
    /\ UNCHANGED <<state, device, commandQueue, lastKeyState, retpc,
                   reportBuffer, uinput, selected, callerVars, invoked,
                   shutdownFrom, resetsAfter, recovering, failAt, failQueued,
                   devReset, devConfigured, prevBits,
                   pollsWaited, downCodes, netDown, encoderVars>>

\* Line 203: while self._state == Manager.State.FOUND
FoundLoop ==
    /\ pc = "found_loop"
    /\ pc' = IF state = FOUND THEN "read" ELSE "run_top"
    /\ UNCHANGED <<state, device, commandQueue, lastKeyState, retpc,
                   reportBuffer, uinput, selected, callerVars,
                   ghostVars, encoderVars>>

\* _readKeys: what self._device.read does. A short read returns fewer than
\* REPORT_SIZE bytes; its bytes are never decoded, so the buffer is kept.
ReadOutcomes == {"full", "short", "ETIMEDOUT", "USBError"}
ShortCount == 4

\* A _readKeys that re-raises every USBError, the timeout included.
ReadKeysRaises_Timeout(out) == out \in {"USBError", "ETIMEDOUT"}

\* Line 124-128: _readKeys re-raises a USBError unless its errno is
\* ETIMEDOUT.
ReadKeysRaises(out) == out = "USBError"

\* The count _readKeys returns when it does not raise: what the read
\* returned, or 0 for the timeout it catches (line 125-126).
ReadKeysCount(out) ==
    CASE out = "full" -> REPORT_SIZE
      [] out = "short" -> ShortCount
      [] out = "ETIMEDOUT" -> 0

\* Line 205-207 and 214-216: count = self._readKeys(reportBuffer), the test
\* of count, and run's except clause for the error _readKeys re-raises.
\* count is read by that test only, so it is not kept in the state.
ReadKeys(reports) ==
    /\ pc = "read"
    /\ \E out \in ReadOutcomes, r \in reports :
         /\ lastRead' = out
         /\ IF ReadKeysRaises(out)
            THEN /\ pc' = "run_top"
                 /\ recovering' = TRUE
                 /\ pollsWaited' = AfterIOError(commandQueue, pollsWaited)
                 /\ UNCHANGED reportBuffer
            ELSE /\ reportBuffer' = IF out = "full" THEN r ELSE reportBuffer
                 /\ pc' = IF ReadKeysCount(out) = REPORT_SIZE
                          THEN "synth_keys" ELSE "drain"
                 /\ pollsWaited' = AfterPoll(commandQueue, pollsWaited)
                 /\ UNCHANGED recovering
    /\ UNCHANGED <<state, device, commandQueue, lastKeyState, retpc, uinput,
                   selected, callerVars, invoked, shutdownFrom, resetsAfter,
                   failAt, failQueued, devReset, devConfigured, prevBits,
                   downCodes, netDown, encoderVars>>

\* Line 208: self._synthesizeKeys(reportBuffer)
SynthKeys ==
    /\ pc = "synth_keys"
    /\ LET res == SynthesizeKeys(1, reportBuffer, Profiles[selected],
                                 <<lastKeyState, uinput>>)
       IN  /\ lastKeyState' = res[1]
           /\ uinput' = res[2]
    /\ prevBits' = [i \in 1..Len(G13NormalKeys) |->
                      testReport(G13NormalKeys[i], reportBuffer)]
    /\ downCodes' =
         [n \in KeyNames |->
            IF n \in Range(G13NormalKeys)
            THEN DownCodesAfter(downCodes[n], Get(lastKeyState, n, FALSE),
                                testReport(n, reportBuffer),
                                Profiles[selected].keyBinding[n])
            ELSE downCodes[n]]
    /\ netDown' =
         [n \in KeyNames |->
            IF n \in Range(G13NormalKeys)
            THEN NetDownAfter(netDown[n], Get(lastKeyState, n, FALSE),
                              testReport(n, reportBuffer))
            ELSE netDown[n]]
    /\ pc' = "synth_stick"
    /\ lastRead' = "none"
    /\ UNCHANGED <<state, device, commandQueue, retpc, reportBuffer,
                   selected, callerVars, invoked, shutdownFrom, resetsAfter,
                   recovering, failAt, failQueued, devReset, devConfigured,
                   pollsWaited, encoderVars>>

\* Line 209: self._synthesizeStick(reportBuffer)
SynthStick ==
    /\ pc = "synth_stick"
    /\ LET res == SynthesizeStick(reportBuffer, Profiles[selected],
                                  <<lastKeyState, uinput>>)
       IN  /\ lastKeyState' = res[1]
           /\ uinput' = res[2]
    /\ LET inKeys(n) == /\ Profiles[selected].stickMode = KEYS
                         /\ n \in Range(StickRegionNames)
           now(n) == InRegion(Profiles[selected].stickRegions[n],
                              reportBuffer.joy_x, reportBuffer.joy_y)
       IN  /\ downCodes' =
                [n \in KeyNames |->
                   IF inKeys(n)
                   THEN DownCodesAfter(downCodes[n],
                                       Get(lastKeyState, n, FALSE), now(n),
                                       Profiles[selected].keyBinding[n])
                   ELSE downCodes[n]]
           /\ netDown' =
                [n \in KeyNames |->
                   IF inKeys(n)
                   THEN NetDownAfter(netDown[n],
                                     Get(lastKeyState, n, FALSE), now(n))
                   ELSE netDown[n]]
    /\ pc' = "syn"
    /\ UNCHANGED <<state, device, commandQueue, retpc, reportBuffer,
                   selected, callerVars, invoked, shutdownFrom, resetsAfter,
                   recovering, failAt, failQueued, devReset, devConfigured,
                   prevBits, lastRead, pollsWaited, encoderVars>>

\* Line 210: self._uinput.syn() hands the written events to the kernel.
Syn ==
    /\ pc = "syn"
    /\ uinput' = <<>>
    /\ pc' = "drain"
    /\ UNCHANGED <<state, device, commandQueue, lastKeyState, retpc,
                   reportBuffer, selected, callerVars, ghostVars, encoderVars>>

\* Line 212, 186-193 and 214-216: one turn of _processCommands' loop.
\* get_nowait on an empty queue raises queue.Empty: break, back to line 203.
\* Otherwise the command is removed and called; a USBError leaves
\* _processCommands and is caught by run (break); any other exception is
\* caught by nothing.
ProcessCommands ==
    /\ pc = "drain"
    /\ IF commandQueue = <<>>
       THEN /\ pc' = "found_loop"
            /\ UNCHANGED <<commandQueue, invoked, recovering, failAt,
                           failQueued, pollsWaited>>
       ELSE /\ commandQueue' = QueueRest(commandQueue)
            /\ invoked' = Append(invoked, QueueFront(commandQueue))
            /\ IF Prepare(QueueFront(commandQueue), device) # "transfer"
               THEN /\ pc' = "crashed"
                    /\ pollsWaited' = IF QueueRest(commandQueue) = <<>>
                                       THEN 0 ELSE pollsWaited
                    /\ UNCHANGED <<recovering, failAt, failQueued>>
               ELSE \E ok \in BOOLEAN :
                      IF ok
                      THEN /\ pc' = "drain"
                           /\ pollsWaited' = IF QueueRest(commandQueue) = <<>>
                                              THEN 0 ELSE pollsWaited
                           /\ UNCHANGED <<recovering, failAt, failQueued>>
                      ELSE /\ pc' = "run_top"
                           /\ recovering' = TRUE
                           /\ failAt' = Len(invoked) + 1
                           /\ failQueued' = Len(enqueued)
                           /\ pollsWaited' =
                                AfterIOError(QueueRest(commandQueue), 0)
    /\ lastRead' = "none"
    /\ UNCHANGED <<state, device, lastKeyState, retpc, reportBuffer, uinput,
                   selected, callerVars, shutdownFrom, resetsAfter, devReset,
                   devConfigured, prevBits, downCodes, netDown, encoderVars>>

\* Line 218-220: if self._device and self._state == FOUND: self._reset()
RunExit ==
    /\ pc = "exit"
    /\ IF device # None /\ state = FOUND
       THEN CallReset("done")
       ELSE /\ pc' = "done"
            /\ UNCHANGED retpc
    /\ UNCHANGED <<state, device, commandQueue, lastKeyState, reportBuffer,
                   uinput, selected, callerVars, ghostVars, encoderVars>>

\* ------------------------------------------------------- caller threads
\* setLedsMode / setBacklightColor / setLCDBuffer, first statement:
\* self._ensureState(Manager.State.FOUND)
Call(c, op, args) ==
    /\ cpc[c] = "idle"
    /\ calls < MaxCalls
    /\ calls' = calls + 1
    /\ IF EnsureStateRaises(state, FOUND)
       THEN /\ raised' = TRUE
            /\ UNCHANGED <<cpc, pending>>
       ELSE /\ raised' = FALSE
            /\ cpc' = [cpc EXCEPT ![c] = "put"]
            /\ pending' = [pending EXCEPT ![c] = CommandOf(op, args)]
    /\ UNCHANGED <<sessionVars, selected, enqueued, ghostVars, encoderVars>>

\* Second statement: self._commandQueue.put([fn, args])
Put(c) ==
    /\ cpc[c] = "put"
    /\ commandQueue' = QueuePut(commandQueue, pending[c])
    /\ enqueued' = Append(enqueued, pending[c])
    /\ cpc' = [cpc EXCEPT ![c] = "idle"]
    /\ pending' = [pending EXCEPT ![c] = NoCommand]
    /\ pollsWaited' = IF state # FOUND THEN -1 ELSE pollsWaited
    /\ UNCHANGED <<state, device, lastKeyState, pc, retpc, reportBuffer,
                   uinput, selected, calls, raised, ghostButPolls,
                   encoderVars>>

\* shutdown(), line 280-281, from any thread; it is called once.
Shutdown ==
    /\ shutdownFrom = "none"
    /\ state' = SHUTDOWN
    /\ shutdownFrom' = state
    /\ resetsAfter' = 0
    /\ UNCHANGED <<device, commandQueue, lastKeyState, pc, retpc,
                   reportBuffer, uinput, selected, callerVars, invoked,
                   recovering, failAt, failQueued, devReset, devConfigured,
                   prevBits, lastRead,
                   pollsWaited, downCodes, netDown, encoderVars>>

\* G13DisplayDevice.update, line 61: lpbm = ImageToLPBM(image). The function
\* is pure: one call per behaviour shows all it does.
Update(img) ==
    /\ lpbm = NotRun
    /\ image' = img
    /\ lpbm' = ImageToLPBM(img)
    /\ UNCHANGED <<sessionVars, selected, callerVars, ghostVars>>

\* The profile collaborator selects another profile.
SelectProfile(i) ==
    /\ selected # i
    /\ selected' = i
    /\ UNCHANGED <<sessionVars, callerVars, ghostVars, encoderVars>>

\* ------------------------------------------------------ specifications
Session(reports) ==
    \/ RunTop \/ DiscEntry \/ DiscSetState \/ DiscLoop \/ DiscFind
    \/ DiscSleep \/ DiscDevReset \/ DiscClaim \/ DiscConfig \/ DiscExcept
    \/ DiscElse \/ ResetDevReset \/ ResetDispose \/ ResetSleep
    \/ FoundLoop \/ ReadKeys(reports) \/ SynthKeys \/ SynthStick \/ Syn
    \/ ProcessCommands \/ RunExit

CallerNext ==
    \E c \in Callers :
      \/ \E op \in OpsOf(c) : \E args \in ArgsOf(op) : Call(c, op, args)
      \/ Put(c)

\* The session with its callers and shutdown; the device reports no key.
Next == Session(QuietReports) \/ CallerNext \/ Shutdown

Spec == Init /\ [][Next]_vars

\* The session thread is scheduled as long as it can take a step.
FairSpec == Spec /\ WF_vars(Session(QuietReports))

\* The session with every report and the profile collaborator, no callers.
NextKeys ==
    \/ Session(AllReports)
    \/ \E i \in 1..Len(Profiles) : SelectProfile(i)
    \/ Shutdown

SpecKeys == Init /\ [][NextKeys]_vars

\* The session with the stick moved around the region edges.
NextStick ==
    \/ Session(StickReports)
    \/ \E i \in 1..Len(Profiles) : SelectProfile(i)
    \/ Shutdown

SpecStick == Init /\ [][NextStick]_vars

\* The display thread encoding one image.
NextEncoder == \E img \in Images : Update(img)

SpecEncoder == Init /\ [][NextEncoder]_vars

\* ================================================================ claims

\* C1: in every reachable state, state == FOUND iff the device handle is
\* non-null. (Violated: the handle is held while DISCOVERING between find and
\* configuration, is null while state is still FOUND inside the _reset that
\* _discover runs after an I/O error, and is held after shutdown().)
C1_FoundIffDevice == (state = FOUND) <=> (device # None)

\* C2: a call to setLedsMode / setBacklightColor / setLCDBuffer made while
\* state != FOUND raises StateError and leaves the queue unchanged; made while
\* state == FOUND it builds the command from its own arguments and its put
\* appends exactly that one command at the tail; neither step does device I/O.
C2_GuardThenEnqueue ==
    [][ /\ (calls' = calls + 1 /\ state # FOUND)
           => /\ raised'
              /\ commandQueue' = commandQueue
              /\ enqueued' = enqueued
              /\ cpc' = cpc
              /\ invoked' = invoked
              /\ device' = device
        /\ (calls' = calls + 1 /\ state = FOUND)
           => /\ ~raised'
              /\ commandQueue' = commandQueue
              /\ invoked' = invoked
              /\ device' = device
              /\ \E c \in Callers :
                   /\ cpc[c] = "idle" /\ cpc'[c] = "put"
                   /\ \A d \in Callers \ {c} :
                        cpc'[d] = cpc[d] /\ pending'[d] = pending[d]
        /\ \A c \in Callers : \A op \in Operations : \A args \in ArgsOf(op) :
             (Call(c, op, args) /\ state = FOUND)
             => /\ pending'[c].args = args
                /\ pending'[c].fn =
                     CASE op = "setLedsMode" -> "_setLedsMode"
                       [] op = "setBacklightColor" -> "_setBacklightColor"
                       [] op = "setLCDBuffer" -> "_setLCDBuffer"
        /\ \A c \in Callers :
             (cpc[c] = "put" /\ cpc'[c] = "idle")
             => /\ commandQueue' = Append(commandQueue, pending[c])
                /\ invoked' = invoked
                /\ device' = device
      ]_vars

\* C2 witness: one call passed the guard and its command was put, and the
\* latest call raised StateError.
C2_Witness == raised /\ calls = 2 /\ Len(enqueued) = 1

C4_ShutdownWhileFoundResetsOnce ==
    (pc = "done" /\ shutdownFrom = FOUND)
    => (state = SHUTDOWN /\ device = None /\ resetsAfter = 1)

\* C5: once state is SHUTDOWN no step changes it. (Violated: _discover
\* assigns DISCOVERING at line 92 and FOUND at line 112 without looking.)
C5_ShutdownIsTerminal == [][state = SHUTDOWN => state' = SHUTDOWN]_vars

\* C6: after shutdown() is called, run() eventually returns. (Violated: the
\* inner enumeration loop, line 96-100, never tests state, and line 92 / 112
\* overwrite SHUTDOWN.)
\* run() has returned, or the thread died of an uncaught exception.
Terminated == pc \in {"done", "crashed"}

C6_ShutdownTerminatesRun == (shutdownFrom # "none") ~> Terminated

\* C7: in the steady-state loop a read timeout is no error (the state is
\* left as it is and the iteration goes on to the queue drain); any other
\* USB error of the read, or of a queued device write, ends the loop, and the
\* session goes back through _discover, which resets and releases the handle
\* before it assigns DISCOVERING and before anything is enumerated; unless
\* shutdown() is called, state does become DISCOVERING.
RecoveryPath ==
    {"run_top", "disc_entry", "reset_devreset", "reset_dispose",
     "reset_sleep", "disc_setstate", "exit", "done"}

C7_TimeoutVersusError ==
    /\ [][ /\ (pc = "read" /\ pc' # pc /\ lastRead' = "ETIMEDOUT")
              => (pc' = "drain" /\ state' = state /\ device' = device
                  /\ ~recovering')
           /\ (pc = "read" /\ pc' # pc /\ lastRead' = "USBError")
              => (pc' = "run_top" /\ recovering')
           /\ (pc = "drain" /\ failAt' # failAt)
              => (pc' = "run_top" /\ recovering')
           /\ (recovering /\ pc = "run_top" /\ pc' # pc)
              => pc' = (IF state = SHUTDOWN THEN "exit" ELSE "disc_entry")
           /\ (recovering /\ pc = "disc_entry" /\ pc' # pc)
              => (pc' = "reset_devreset" /\ retpc' = "disc_setstate")
           /\ (recovering /\ ~recovering')
              => (pc = "disc_setstate" /\ state' = DISCOVERING
                  /\ device = None)
         ]_vars
    /\ [](recovering =>
            /\ pc \in RecoveryPath
            /\ pc \in {"reset_devreset", "reset_dispose", "reset_sleep"}
               => retpc = "disc_setstate"
            /\ pc \in {"reset_sleep", "disc_setstate"} => device = None)
    /\ (recovering /\ shutdownFrom = "none")
         ~> (state = DISCOVERING \/ shutdownFrom # "none")

\* C7 witness: after a non-timeout error the handle has been released and
\* the session is about to assign DISCOVERING.
C7_Witness ==
    recovering /\ pc = "disc_setstate" /\ device = None /\ state = FOUND

\* C8: when a queued command fails with a non-timeout I/O error, the
\* commands still queued behind it are abandoned: none of them is called
\* afterwards. (Violated: nothing clears the queue; the next drain, after
\* rediscovery, calls them.)
C8_RestOfQueueAbandoned ==
    (failAt > 0 /\ failQueued > failAt) => Len(invoked) = failAt

\* C9: at every full report and for every key, _synthesizeKeys writes
\* key-down for each code of the key's binding iff the key's bit went
\* false -> true since the previous full report (false before the first),
\* key-up for each code iff it went true -> false, and nothing for the key
\* when its bit is unchanged; it writes nothing else.
CodesOf(binding) == {binding[j] : j \in 1..Len(binding)}

C9_EdgeTriggered ==
    /\ [][ (pc = "synth_keys" /\ pc' = "synth_stick")
           => /\ \A i \in 1..Len(G13NormalKeys) :
                   LET b == Profiles[selected].keyBinding[G13NormalKeys[i]]
                       was == prevBits[i]
                       now == testReport(G13NormalKeys[i], reportBuffer)
                       written == SelectSeq(uinput',
                                            LAMBDA e : e[2] \in CodesOf(b))
                   IN  written =
                         IF ~was /\ now
                         THEN [j \in 1..Len(b) |-> <<"EV_KEY", b[j], 1>>]
                         ELSE IF was /\ ~now
                         THEN [j \in 1..Len(b) |-> <<"EV_KEY", b[j], 0>>]
                         ELSE <<>>
              /\ \A n \in 1..Len(uinput') :
                   \E i \in 1..Len(G13NormalKeys) :
                     uinput'[n][2] \in
                       CodesOf(Profiles[selected].keyBinding[G13NormalKeys[i]])
         ]_vars
    /\ [](pc = "synth_keys" => uinput = <<>>)

\* C9 witness: a report in which G1 went up again has just been synthesized
\* (key-up written for its code), G2 staying down without any write.
C9_Witness ==
    /\ pc = "synth_stick"
    /\ selected = 1
    /\ uinput = << <<"EV_KEY", "KEY_A", 0>> >>
    /\ prevBits = <<FALSE, TRUE>>

\* C10: while shutdown() has not been called, whenever no device is found or
\* reset / claim / configuration fails, _discover neither returns nor raises:
\* state stays DISCOVERING, the handler resets and drops the handle and the
\* loop enumerates again; state becomes FOUND only with a handle that was
\* found, reset and configured.
DiscoverBody ==
    {"disc_find", "disc_sleep", "disc_devreset", "disc_claim", "disc_config",
     "disc_except", "disc_else"}

InHandlerReset ==
    pc \in {"reset_devreset", "reset_dispose", "reset_sleep"}
    /\ retpc = "disc_loop"

C10_DiscoveryNeverGivesUp ==
    /\ [][ /\ (pc = "disc_find" /\ pc' # pc /\ device' = None
               /\ pc' # "disc_except")
              => (pc' = "disc_sleep" /\ state' = state)
           /\ (pc = "disc_sleep" /\ pc' # pc) => pc' = "disc_find"
           /\ (pc \in {"disc_devreset", "disc_claim", "disc_config"}
               /\ pc' # pc)
              => /\ pc' \in {"disc_claim", "disc_config", "disc_else",
                             "disc_except"}
                 /\ state' = state
                 /\ device' = device
           /\ (pc = "disc_except" /\ pc' # pc)
              => (pc' = "reset_devreset" /\ retpc' = "disc_loop"
                  /\ state' = state)
           /\ (InHandlerReset /\ device # None /\ pc' # pc)
              => (pc' # "crashed" /\ state' = state)
           /\ (InHandlerReset /\ pc = "reset_sleep" /\ pc' # pc)
              => (pc' = "disc_loop" /\ device = None)
           /\ (pc = "disc_loop" /\ pc' # pc /\ state = DISCOVERING
               /\ device = None)
              => pc' = "disc_find"
           /\ (state # FOUND /\ state' = FOUND)
              => (pc = "disc_else" /\ device = Dev /\ devReset
                  /\ devConfigured)
         ]_vars
    /\ []((shutdownFrom = "none" /\ (pc \in DiscoverBody \/ InHandlerReset))
          => state = DISCOVERING)

\* C10 witness: configuration failed with no shutdown requested; the handler
\* has reset and dropped the handle and is about to return to the loop.
C10_Witness ==
    /\ shutdownFrom = "none"
    /\ InHandlerReset
    /\ pc = "reset_sleep"
    /\ device = None
    /\ state = DISCOVERING

\* Bit k of the byte b.
Bit(b, k) == (b \div (2 ^ k)) % 2

\* C11: for every monochrome image of the device's dimensions ImageToLPBM
\* returns exactly width * height / 8 bytes, and bit k of byte i is set iff
\* pixel (i mod width, 8 * (i div width) + k) is black, except in the band
\* starting at row 40, where only k = 0..2 contribute and bits 3..7 are 0.
C11_EncodesDeviceImage ==
    (lpbm # NotRun /\ image.width = WIDTH_PIXELS
     /\ image.height = HEIGHT_PIXELS)
    => /\ lpbm.raised = "none"
       /\ Len(lpbm.value) = (WIDTH_PIXELS * HEIGHT_PIXELS) \div 8
       /\ \A i \in 0..(Len(lpbm.value) - 1) :
            /\ lpbm.value[i + 1] \in 0..255
            /\ \A k \in 0..7 :
                 LET x == i % WIDTH_PIXELS
                     band == 8 * (i \div WIDTH_PIXELS)
                 IN  (Bit(lpbm.value[i + 1], k) = 1)
                     <=> IF band = 40 /\ k > 2 THEN FALSE
                         ELSE PixelAt(image, x, band + k) = 0

\* C11 witness: a white image of the device's dimensions with one black
\* pixel in the last column of the partial band, row 41, was encoded: the
\* last byte has bit 1 set and nothing else.
C11_Witness ==
    /\ lpbm.raised = "none"
    /\ image.width = WIDTH_PIXELS /\ image.height = HEIGHT_PIXELS
    /\ image.bg = 255
    /\ image.flipped = {<<WIDTH_PIXELS - 1, 41>>}
    /\ Len(lpbm.value) = 960
    /\ lpbm.value[960] = 2

\* The fully black and the fully white image of the device's dimensions.
BlackImage ==
    [width |-> WIDTH_PIXELS, height |-> HEIGHT_PIXELS, bg |-> 0,
     flipped |-> {}]

WhiteImage ==
    [width |-> WIDTH_PIXELS, height |-> HEIGHT_PIXELS, bg |-> 255,
     flipped |-> {}]

\* C12 as stated: encoding the fully black image yields width * height / 8
\* bytes that all have the same value, all bits set, and encoding the fully
\* white image yields the bytewise complement. (Violated: the 160 bytes of
\* the band at row 40 are 0x07, and white gives 0x00 there, not 0xF8.)
C12_BlackUniformWhiteComplement ==
    (lpbm # NotRun /\ image = BlackImage)
    => LET white == ImageToLPBM(WhiteImage).value
       IN  /\ lpbm.raised = "none"
           /\ Len(lpbm.value) = (WIDTH_PIXELS * HEIGHT_PIXELS) \div 8
           /\ Len(white) = Len(lpbm.value)
           /\ \A i \in 1..Len(lpbm.value) :
                /\ lpbm.value[i] = 255
                /\ white[i] = 255 - lpbm.value[i]

\* The bits of byte i (from 0) that pixels contribute to.
BandMask(i) == IF 8 * (i \div WIDTH_PIXELS) = 40 THEN 7 ELSE 255

\* C12 amended: encoding the fully black image yields width * height / 8
\* bytes, 0xFF in the bands at rows 0..32 and 0x07 in the band at row 40;
\* encoding the fully white image yields as many bytes, all 0x00, which is
\* the complement of the black output within the contributing bits.
C12_BlackAndWhiteByBand ==
    /\ (lpbm # NotRun /\ image = BlackImage)
       => LET white == ImageToLPBM(WhiteImage).value
          IN  /\ lpbm.raised = "none"
              /\ Len(lpbm.value) = (WIDTH_PIXELS * HEIGHT_PIXELS) \div 8
              /\ Len(white) = Len(lpbm.value)
              /\ \A i \in 1..Len(lpbm.value) :
                   /\ lpbm.value[i] = BandMask(i - 1)
                   /\ white[i] = BandMask(i - 1) - lpbm.value[i]
    /\ (lpbm # NotRun /\ image = WhiteImage)
       => /\ lpbm.raised = "none"
          /\ Len(lpbm.value) = (WIDTH_PIXELS * HEIGHT_PIXELS) \div 8
          /\ \A i \in 1..Len(lpbm.value) : lpbm.value[i] = 0

\* C12 witness: the fully black image was encoded; the first byte is 0xFF
\* and the last, in the band at row 40, is 0x07.
C12_Witness ==
    /\ image = BlackImage
    /\ lpbm.raised = "none"
    /\ Len(lpbm.value) = 960
    /\ lpbm.value[1] = 255
    /\ lpbm.value[960] = 7

\* C13: for every image whose dimensions differ from the device's, smaller
\* or larger, ImageToLPBM fails with InvalidImageDimensions before it writes
\* any output byte, and returns no encoding. (Violated: the function never
\* looks at the size; it returns an encoding of the top left corner of a
\* larger image and of an image 160 wide and 43..47 high, and raises
\* IndexError part way through a smaller one.)
C13_RejectsOtherDimensions ==
    (lpbm # NotRun
     /\ (image.width # WIDTH_PIXELS \/ image.height # HEIGHT_PIXELS))
    => /\ lpbm.raised = "InvalidImageDimensions"
       /\ lpbm.written = 0
       /\ lpbm.value = <<>>

\* The events the step has written: uinput' without its prefix uinput.
Written(before, after) == SubSeq(after, Len(before) + 1, Len(after))

\* C14: in stick Keys mode a region (x0, y0, x1, y1) is active for the
\* normalized point (x, y) = (joy_x / 255, joy_y / 255) iff x0 <= x <= x1
\* and y0 <= y <= y1, all four edges included; the state is kept per region
\* name; entering a region writes key-down and leaving it key-up for the
\* region's binding, and nothing is written for a region otherwise. For the
\* region (0.2, 0.2, 0.8, 0.8): (0.2, 0.5) and (0.8, 0.8) are inside and
\* (0.81, 0.5) is outside.
C14_RegionContainment ==
    [][ (pc = "synth_stick" /\ pc' = "syn"
         /\ Profiles[selected].stickMode = KEYS)
        => /\ \A i \in 1..Len(StickRegionNames) :
                LET n == StickRegionNames[i]
                    r == Profiles[selected].stickRegions[n]
                    b == Profiles[selected].keyBinding[n]
                    x255 == reportBuffer.joy_x
                    y255 == reportBuffer.joy_y
                    was == Get(lastKeyState, n, FALSE)
                    now == /\ r[1] * 255 <= x255 * 100
                           /\ x255 * 100 <= r[3] * 255
                           /\ r[2] * 255 <= y255 * 100
                           /\ y255 * 100 <= r[4] * 255
                    written == SelectSeq(Written(uinput, uinput'),
                                         LAMBDA e : e[2] \in CodesOf(b))
                IN  /\ Get(lastKeyState', n, FALSE) = now
                    /\ written =
                         IF ~was /\ now
                         THEN [j \in 1..Len(b) |-> <<"EV_KEY", b[j], 1>>]
                         ELSE IF was /\ ~now
                         THEN [j \in 1..Len(b) |-> <<"EV_KEY", b[j], 0>>]
                         ELSE <<>>
           /\ uinput = SubSeq(uinput', 1, Len(uinput))
           /\ \A k \in Range(G13NormalKeys) :
                Get(lastKeyState', k, FALSE) = Get(lastKeyState, k, FALSE)
           /\ (Profiles[selected].stickRegions["CENTER"]
                  = <<20, 20, 80, 80>>)
              => LET in == Get(lastKeyState', "CENTER", FALSE)
                     x255 == reportBuffer.joy_x
                     y255 == reportBuffer.joy_y
                 IN  /\ (x255 = 51 /\ y255 = 128) => in
                     /\ (x255 = 204 /\ y255 = 204) => in
                     /\ (x255 = 207 /\ y255 = 128) => ~in
      ]_vars

\* C14 witness: the stick was inside the region (0.2, 0.2, 0.8, 0.8) and the
\* report now synthesized has it at x = 207 / 255 > 0.8: key-up was written
\* for the region's binding.
C14_Witness ==
    /\ pc = "syn"
    /\ selected = 1
    /\ reportBuffer.joy_x = 207
    /\ reportBuffer.joy_y = 128
    /\ uinput = << <<"EV_KEY", "KEY_ENTER", 0>> >>
    /\ Get(lastKeyState, "CENTER", TRUE) = FALSE

\* C15: in every pass of the steady-state loop that raises no I/O error the
\* queue is drained after the poll, whether the read gave a full report
\* (then after synthesis and syn), a short read or a timeout; and a drain
\* pops and calls commands until it finds the queue empty, with no read and
\* no synthesis between two calls: a drain that no I/O error ends leaves the
\* queue empty. (Violated: _setLCDBuffer raises TypeError for a bytes
\* buffer, which is no I/O error; nothing catches it and the drain, with the
\* thread, ends with the commands behind it still queued.)
C15_DrainEveryIteration ==
    [][ /\ (pc = "read" /\ pc' # pc
            /\ lastRead' \in {"short", "ETIMEDOUT"})
           => pc' = "drain"
        /\ (pc = "read" /\ pc' # pc /\ lastRead' = "full")
           => pc' = "synth_keys"
        /\ (pc = "synth_keys" /\ pc' # pc) => pc' = "synth_stick"
        /\ (pc = "synth_stick" /\ pc' # pc) => pc' = "syn"
        /\ (pc = "syn" /\ pc' # pc) => pc' = "drain"
        /\ (pc = "drain" /\ invoked' # invoked /\ failAt' = failAt)
           => pc' \notin {"found_loop", "read", "synth_keys",
                          "synth_stick", "syn"}
        /\ (pc = "drain" /\ pc' # pc /\ failAt' = failAt)
           => commandQueue' = <<>>
      ]_vars

\* What a pass over `names` from the i-th on writes if every key-up is for
\* the codes of the key's preceding key-down (downCodes), and every key-down
\* for the key's current binding.
RECURSIVE SameCodesWrites(_, _)
SameCodesWrites(names, i) ==
    IF i > Len(names) THEN <<>>
    ELSE LET n == names[i]
             was == Get(lastKeyState, n, FALSE)
             now == Get(lastKeyState', n, FALSE)
         IN  (IF ~was /\ now
              THEN KeyWrites(Profiles[selected].keyBinding[n], 1)
              ELSE IF was /\ ~now THEN KeyWrites(downCodes[n], 0)
              ELSE <<>>)
             \o SameCodesWrites(names, i + 1)

\* C16: on a true -> false transition of a key (or stick region) key-up is
\* written for exactly the codes key-down was written for at its preceding
\* false -> true transition, whatever the profile collaborator changed in
\* between. (Violated: the binding is read again at the release, line 255 and
\* 232, so after a change of binding key-up goes to the new codes and the
\* codes pressed are never released.)
C16_KeyUpForCodesPressed ==
    [][ /\ (pc = "synth_keys" /\ pc' = "synth_stick")
           => Written(uinput, uinput') = SameCodesWrites(G13NormalKeys, 1)
        /\ (pc = "synth_stick" /\ pc' = "syn"
            /\ Profiles[selected].stickMode = KEYS)
           => Written(uinput, uinput') = SameCodesWrites(StickRegionNames, 1)
      ]_vars

\* C17: while no I/O error has occurred since its put and shutdown() has not
\* been called, a command put while state == FOUND has seen at most one
\* polling read and is called by the drain that follows that read: the
\* session thread never ends with such a command still queued. (Violated:
\* the TypeError of _setLCDBuffer on a bytes buffer ends the thread, and the
\* commands queued behind it are never called.)
C17_CalledAfterOnePoll ==
    (shutdownFrom = "none" /\ pollsWaited >= 0)
    => /\ pollsWaited <= 1
       /\ pc = "crashed" => commandQueue = <<>>

\* C18: a command enters the queue only at an instant when state == FOUND
\* and the device handle is not null, under every interleaving of the
\* caller's guard and put with the session thread and with shutdown().
\* (Violated: the guard and the put are two statements with no lock, and
\* state is still FOUND while _reset has already dropped the handle.)
C18_PutOnlyWhileFound ==
    [][enqueued' # enqueued => (state = FOUND /\ device # None)]_vars

\* C19: every full report reaches _synthesizeStick; with stick mode Relative
\* it writes nothing, leaves the previous-state mapping as it is and raises
\* nothing; with stick mode Absolute it writes one ABS_X and one ABS_Y event
\* carrying the report's bytes 1 and 2, whatever the previous report was.
C19_RelativeNoOpAbsoluteRaw ==
    [][ /\ (pc = "read" /\ pc' # pc /\ lastRead' = "full")
           => pc' = "synth_keys"
        /\ (pc = "synth_keys" /\ pc' # pc) => pc' = "synth_stick"
        /\ (pc = "synth_stick" /\ pc' # pc
            /\ Profiles[selected].stickMode = RELATIVE)
           => /\ pc' = "syn"
              /\ uinput' = uinput
              /\ lastKeyState' = lastKeyState
        /\ (pc = "synth_stick" /\ pc' # pc
            /\ Profiles[selected].stickMode = ABSOLUTE)
           => /\ pc' = "syn"
              /\ uinput' = uinput \o
                   << <<"EV_ABS", "ABS_X", reportBuffer.joy_x>>,
                      <<"EV_ABS", "ABS_Y", reportBuffer.joy_y>> >>
              /\ lastKeyState' = lastKeyState
      ]_vars

\* C19 witness: in Absolute mode a report that released G2 (so not the first
\* report; joy_y is 128 as in the one before) was synthesized: after the
\* key-up, ABS_X and ABS_Y were written with the report's bytes.
C19_Witness ==
    /\ pc = "syn"
    /\ selected = 2
    /\ reportBuffer.joy_x = 128
    /\ uinput = << <<"EV_KEY", "KEY_A", 0>>, <<"EV_ABS", "ABS_X", 128>>,
                   <<"EV_ABS", "ABS_Y", 128>> >>

\* C20: for every key (and stick region), across reports, I/O errors and
\* rediscoveries, the key-down transitions handled minus the key-up
\* transitions handled is 0 or 1, and is 1 exactly when the stored previous
\* state is true; only the two synthesis steps change the mapping or write
\* events (syn flushes them), so nothing is cleared or written when the
\* session goes from FOUND to DISCOVERING, and a key goes up only at a full
\* report that shows it released.
C20_DownMinusUp ==
    /\ [](\A n \in KeyNames :
            /\ netDown[n] \in {0, 1}
            /\ (netDown[n] = 1) <=> Get(lastKeyState, n, FALSE))
    /\ [][ /\ (pc \notin {"synth_keys", "synth_stick"})
               => /\ lastKeyState' = lastKeyState
                  /\ netDown' = netDown
                  /\ uinput' = uinput \/ (pc = "syn" /\ uinput' = <<>>)
           /\ (state' # state)
               => (lastKeyState' = lastKeyState /\ uinput' = uinput)
           /\ \A k \in Range(G13NormalKeys) :
                (netDown'[k] < netDown[k])
                => (pc = "synth_keys" /\ ~testReport(k, reportBuffer))
         ]_vars

\* C20 witness: G1 was held when the device was lost; the session is
\* enumerating again with no handle, and G1 is still down.
C20_Witness ==
    /\ state = DISCOVERING
    /\ pc = "disc_find"
    /\ device = None
    /\ netDown["G1"] = 1
    /\ Get(lastKeyState, "G1", FALSE)
    /\ shutdownFrom = "none"

====
